---- MODULE Spec2Model ----
(***************************************************************************)
(* Movie reservation system: the reservation routes (create, cancel), the  *)
(* showtime routes (create, update, delete) and the tables they share, as  *)
(* a state machine.  The store is the transactional relational store the   *)
(* routes are written against: READ COMMITTED statements, row locks taken  *)
(* by "lock: transaction.LOCK.UPDATE" on the row of the queried model and  *)
(* held until commit or rollback, a unique index on bookingReference, and  *)
(* ON DELETE CASCADE on the foreign keys declared in models.js.            *)
(***************************************************************************)
EXTENDS Integers, Sequences, FiniteSets, TLC

----------------------------------------------------------------------------
(* Bounds of the model *)

NProcs == 2        \* request handlers that can be in flight together
MaxRequests == 2   \* requests started in one behaviour
MaxTime == 2       \* the clock runs 0..MaxTime
MaxStart == 3      \* start times a showtime request may name: 0..MaxStart
NumSeats == 3      \* seats 1..NumSeats-1 are theater 1's, seat NumSeats is theater 2's
MaxSeatIds == 2    \* longest seatIds array of a reservation request
NumRefs == 2       \* size of the booking reference code space (36^8 in the code)

----------------------------------------------------------------------------
(* Static tables: theaters, seats, movies, users *)

Procs == 1..NProcs
Users == {1, 2, 3}
Admins == {2}      \* the users with role 'admin'
Bookers == {1}     \* the users who book; any user may ask to cancel
Theaters == {1, 2}
Movies == {1, 2}
Seats == 1..NumSeats
Refs == 1..NumRefs
Times == 0..MaxTime
StartTimes == 0..MaxStart
Prices == {2, 3}

NoVal == -1   \* a field the request does not carry
NoId == 0     \* an id that matches no row

\* Seat.theaterId as seedData lays the seats out, theater by theater
SeatTheater(s) == IF s < NumSeats THEN 1 ELSE 2

\* Theater.totalSeats: seedData sets it to the number of seats it creates
TotalSeats(t) == Cardinality({s \in Seats : SeatTheater(s) = t})

\* Seat.type: the first rows are standard, the last rows premium
SeatType(s) == IF s = 1 THEN "standard" ELSE "premium"

\* (variant: a premium seat costs one unit more)
totalPriceBySeatType(price, seatIds) ==
  price * Len(seatIds)
    + Cardinality({i \in 1..Len(seatIds) : SeatType(seatIds[i]) = "premium"})

\* const totalPrice = parseFloat(showtime.price) * seatIds.length
totalPrice(price, seatIds) == price * Len(seatIds)

\* (variant: the row is created in the other status of the ENUM)
createdCancelled == "cancelled"

\* status: 'confirmed' in Reservation.create
createdStatus == "confirmed"

\* (variant: a new showtime starts with no seat on sale)
availableSeatsNone(tid) == 0

\* availableSeats: theater.totalSeats in Showtime.create
availableSeatsAtCreation(tid) == Cardinality({s \in Seats : SeatTheater(s) = tid})

\* Seat.seatNumber: row letter and column, the same labels in every theater
seatNumber(s) == IF SeatTheater(s) = 1 THEN s ELSE s - (NumSeats - 1)

\* Movie.duration, in clock units
Duration(m) == IF m = 1 THEN 2 ELSE 1

Range(f) == {f[i] : i \in DOMAIN f}

\* seatIds arrays of a request body: every array of at most MaxSeatIds seat
\* ids, the empty one and those with a repeated id included.  The handler
\* never looks at the order, so one array per multiset is drawn.
SeatIdInputs ==
  {q \in UNION {[1..n -> Seats] : n \in 0..MaxSeatIds} :
     \A i \in 1..Len(q) : \A j \in 1..Len(q) : i < j => q[i] <= q[j]}

----------------------------------------------------------------------------
(* State *)

VARIABLES
  showtimes,      \* Showtimes table: id -> row
  showSeq,        \* number of showtime ids handed out
  reservations,   \* Reservations table: id -> row
  resSeq,         \* number of reservation ids handed out
  reservedSeats,  \* ReservedSeats table: set of rows
  now,            \* new Date()
  pc,             \* per handler: where it stands
  req,            \* per handler: the request and the handler's locals
  resp,           \* the last response sent: what, the seats it names, the request it answers
  nreq            \* requests started so far

vars == <<showtimes, showSeq, reservations, resSeq, reservedSeats, now, pc, req, resp, nreq>>

tables == <<showtimes, showSeq, reservations, resSeq, reservedSeats>>

Blank ==
  [op |-> "none", sid |-> NoId, seatIds |-> <<>>, uid |-> NoId, rid |-> NoId,
   ref |-> NoId, avail |-> 0, cnt |-> 0,
   tid |-> NoId, mid |-> NoId, start |-> NoVal, end |-> NoVal, price |-> NoVal]

NoResp == [kind |-> "none", named |-> {}, of |-> Blank]

----------------------------------------------------------------------------
(* Initial states *)

SeedStart == 1   \* start time of the seeded showtimes (a slot of the first day)

SeedPrice == 2   \* price of the seeded showtimes (one of the prices seedData may draw)

\* One seeded Showtime row: theater drawn at random, availableSeats set to
\* the theater's totalSeats
SeedRow(m, t, pr) ==
  [movieId |-> m, theaterId |-> t, startTime |-> SeedStart,
   endTime |-> SeedStart + Duration(m), price |-> pr, availableSeats |-> TotalSeats(t)]

InitHandlers ==
  /\ now = 0
  /\ pc = [p \in Procs |-> "idle"]
  /\ req = [p \in Procs |-> Blank]
  /\ resp = NoResp
  /\ nreq = 0

\* The database as seedData leaves it: one showtime per movie in the slot,
\* no reservation
Seeded(t1, t2) ==
  /\ showtimes = (1 :> SeedRow(1, t1, SeedPrice)) @@ (2 :> SeedRow(2, t2, SeedPrice))
  /\ showSeq = 2
  /\ reservations = <<>>
  /\ resSeq = 0
  /\ reservedSeats = {}
  /\ InitHandlers

Init == \E t1 \in Theaters, t2 \in Theaters : Seeded(t1, t2)

\* A database that already holds theaters and movies is not seeded again
\* but used as it is found: here with a counter of showtime 1 that may be
\* lower than its free seats
InitDrift ==
  /\ \E a \in 0..TotalSeats(1) :
       showtimes = (1 :> [SeedRow(1, 1, SeedPrice) EXCEPT !.availableSeats = a])
                     @@ (2 :> SeedRow(2, 2, SeedPrice))
  /\ showSeq = 2
  /\ reservations = <<>>
  /\ resSeq = 0
  /\ reservedSeats = {}
  /\ InitHandlers

\* the seeding in which the two showtimes fell into different theaters
InitApart == Seeded(1, 2)

\* the Reservation row a committed create of user 1 leaves for showtime 1
BookedRow(ids, ref) ==
  [userId |-> 1, showtimeId |-> 1, totalPrice |-> totalPrice(SeedPrice, ids),
   status |-> createdStatus, bookingReference |-> ref]

\* The database after user 1 has booked ids1 and then, when ids2 is not
\* empty, ids2 for showtime 1, every request answered: the rows the create
\* handler commits, on the seeding with the showtimes in different theaters
Booked(ids1, ids2) ==
  LET n == IF Len(ids2) = 0 THEN 1 ELSE 2
      row == SeedRow(1, 1, SeedPrice)
  IN /\ showtimes = (1 :> [row EXCEPT !.availableSeats = @ - Len(ids1) - Len(ids2)])
                       @@ (2 :> SeedRow(2, 2, SeedPrice))
     /\ showSeq = 2
     /\ reservations = [r \in 1..n |-> IF r = 1 THEN BookedRow(ids1, 1) ELSE BookedRow(ids2, 2)]
     /\ resSeq = n
     /\ reservedSeats = {[reservationId |-> 1, seatId |-> ids1[i], showtimeId |-> 1, n |-> i] :
                            i \in 1..Len(ids1)}
                         \cup {[reservationId |-> 2, seatId |-> ids2[i], showtimeId |-> 1, n |-> i] :
                                 i \in 1..Len(ids2)}
     /\ InitHandlers

InitBooked == Booked(<<1>>, <<>>) \/ Booked(<<1, 2>>, <<>>) \/ Booked(<<1>>, <<2>>)

----------------------------------------------------------------------------
(* Queries shared by the handlers *)

\* the handler answers and its request-scoped state is dropped
RespondWith(p, kind, seats, r) ==
  /\ pc' = [pc EXCEPT ![p] = "idle"]
  /\ resp' = [kind |-> kind, named |-> seats, of |-> r]
  /\ req' = [req EXCEPT ![p] = Blank]

Respond(p, kind) == RespondWith(p, kind, {}, Blank)

Goto(p, label, r) ==
  /\ pc' = [pc EXCEPT ![p] = label]
  /\ req' = [req EXCEPT ![p] = r]
  /\ UNCHANGED resp

\* a request is accepted while the budget of the behaviour lasts
Accept(p) ==
  /\ pc[p] = "idle"
  /\ nreq < MaxRequests
  /\ nreq' = nreq + 1

Confirmed(rid) == rid \in DOMAIN reservations /\ reservations[rid].status = "confirmed"

\* ReservedSeat rows of a showtime joined with their confirmed Reservation
ConfirmedClaims(sid) ==
  {c \in reservedSeats : c.showtimeId = sid /\ Confirmed(c.reservationId)}

\* Reservation.count({ where: { showtimeId, status: 'confirmed' } })
reservationCount(sid) ==
  Cardinality({r \in DOMAIN reservations :
                 reservations[r].showtimeId = sid /\ reservations[r].status = "confirmed"})

\* (variant: the "seats already reserved" return leaves the transaction
\* open, so the handler keeps the lock after it has answered)
HeldAfterRefusal(q, sid) ==
  \/ req[q].sid = sid /\ pc[q] \in {"c_ref", "c_insert", "x_commit", "sd_cascade"}
  \/ pc[q] = "idle" /\ resp.kind = "SeatsAlreadyReserved" /\ resp.of.sid = sid

\* A transaction holds the row lock of showtime sid: a create between its
\* locking findByPk and its commit, a cancel between its locking findByPk
\* and its commit, a DELETE of the row while its cascade waits
HoldsShowtimeLock(q, sid) ==
  /\ req[q].sid = sid
  /\ pc[q] \in {"c_ref", "c_insert", "x_commit", "sd_cascade"}

\* A cancel holds the row lock of reservation rid from its locking findOne
\* to its commit
HoldsReservationLock(q, rid) ==
  /\ req[q].rid = rid
  /\ pc[q] \in {"x_lock", "x_commit"}

ShowtimeLockFree(p, sid) == \A q \in Procs \ {p} : ~HoldsShowtimeLock(q, sid)

ReservationLockFree(p, rid) == \A q \in Procs \ {p} : ~HoldsReservationLock(q, rid)

----------------------------------------------------------------------------
(* POST /api/reservations : create reservation *)

\* (variant: the read takes no lock)
CreateLockNotTaken(p, sid) == TRUE

\* findByPk(showtimeId, { lock: transaction.LOCK.UPDATE, transaction }):
\* the statement returns once no other transaction holds the row's lock
CreateLockGranted(p, sid) == ShowtimeLockFree(p, sid)

\* (variant: the where clause names the ids alone)
seatsFoundAnywhere(seatIds, tid) == {s \in Range(seatIds) : s \in Seats}

\* Seat.findAll({ where: { id: seatIds, theaterId } }): the seat rows found
seatsFound(seatIds, tid) == {s \in Range(seatIds) : s \in Seats /\ SeatTheater(s) = tid}

\* (variant: the join keeps the cancelled reservations instead)
existingCancelled(sid, seatIds) ==
  {c \in reservedSeats : c.showtimeId = sid /\ c.seatId \in Range(seatIds)
                           /\ ~Confirmed(c.reservationId)}

\* (variant: the include carries no where on the status)
existingAnyStatus(sid, seatIds) ==
  {c \in reservedSeats : c.showtimeId = sid /\ c.seatId \in Range(seatIds)}

\* ReservedSeat.findAll({ where: { showtimeId, seatId: seatIds },
\*   include: [{ model: Reservation, where: { status: 'confirmed' } }] })
existingReservations(sid, seatIds) ==
  {c \in ConfirmedClaims(sid) : c.seatId \in Range(seatIds)}

\* (variant: the message lists every seat of the request)
requestedSeatNumbers(taken, seats) == {seatNumber(s) : s \in seats}

\* existingReservations.map(rs => seats.find(s => s.id === rs.seatId)?.seatNumber)
reservedSeatNumbers(taken, seats) ==
  {IF c.seatId \in seats THEN seatNumber(c.seatId) ELSE NoId : c \in taken}

\* (variant: the test asks whether every listed id was found)
someSeatNotFound(seats, seatIds) == ~(Range(seatIds) \subseteq seats)

\* if (seats.length !== seatIds.length)
seatsMismatch(seats, seatIds) == Cardinality(seats) # Len(seatIds)

\* (variant: the counter is not looked at)
capacityUnchecked(avail, n) == FALSE

\* if (showtime.availableSeats < seatIds.length)
notEnoughSeats(avail, n) == avail < n

\* Reservation.findOne({ where: { bookingReference } }) finds a row
existing(ref) == \E r \in DOMAIN reservations : reservations[r].bookingReference = ref

\* (variant: the column carries no unique index)
NoUniqueIndex(ref) == FALSE

\* the unique index on Reservation.bookingReference rejects the insert
UniqueViolation(ref) == \E r \in DOMAIN reservations : reservations[r].bookingReference = ref

\* (variant: one seat is taken off per reservation)
AfterBookingByOne(avail, n) == avail - 1

\* showtime.availableSeats -= seatIds.length
AfterBooking(avail, n) == avail - n

\* (variant: the rows carry the id of the first showtime)
NewClaimsOnFirstShowtime(rid, sid, seatIds) ==
  {[reservationId |-> rid, seatId |-> seatIds[i], showtimeId |-> 1, n |-> i] :
     i \in 1..Len(seatIds)}

\* the rows bulkCreate writes: one per element of seatIds
NewClaims(rid, sid, seatIds) ==
  {[reservationId |-> rid, seatId |-> seatIds[i], showtimeId |-> sid, n |-> i] :
     i \in 1..Len(seatIds)}

\* The request arrives, the transaction is opened, the body is validated,
\* the showtime is read under its row lock (the statement waits while
\* another transaction holds the lock) and the checks are made on what the
\* reads return.  sids, arrays and uids are the request bodies drawn.
CreateLockOn(p, sids, arrays, uids) ==
  /\ Accept(p)
  /\ \E sid \in sids, ids \in arrays, uid \in uids :
       IF Len(ids) = 0
       THEN Respond(p, "BadRequest")
       ELSE IF sid \notin DOMAIN showtimes
       THEN Respond(p, "ShowtimeNotFound")
       ELSE /\ CreateLockGranted(p, sid)
            /\ LET showtime == showtimes[sid]
                   seats == seatsFound(ids, showtime.theaterId)
                   taken == existingReservations(sid, ids)
               IN IF showtime.startTime < now
                  THEN Respond(p, "PastShowtime")
                  ELSE IF seatsMismatch(seats, ids)
                  THEN Respond(p, "InvalidSeats")
                  ELSE IF taken # {}
                  THEN RespondWith(p, "SeatsAlreadyReserved", reservedSeatNumbers(taken, seats),
                                   [Blank EXCEPT !.op = "create", !.sid = sid, !.seatIds = ids])
                  ELSE IF notEnoughSeats(showtime.availableSeats, Len(ids))
                  THEN RespondWith(p, "NotEnoughSeats", {},
                                   [Blank EXCEPT !.op = "create", !.sid = sid, !.seatIds = ids])
                  ELSE Goto(p, "c_ref",
                            [Blank EXCEPT !.op = "create", !.sid = sid, !.seatIds = ids,
                               !.uid = uid, !.avail = showtime.availableSeats,
                               !.price = totalPrice(showtime.price, ids)])
  /\ UNCHANGED <<tables, now>>

CreateLock(p) == CreateLockOn(p, 0..showSeq, SeatIdInputs, Bookers)

\* one turn of the reference loop: draw a code, look it up
CreateGenRef(p) ==
  /\ pc[p] = "c_ref"
  /\ \E ref \in Refs :
       IF existing(ref)
       THEN UNCHANGED <<pc, req, resp>>
       ELSE Goto(p, "c_insert", [req[p] EXCEPT !.ref = ref])
  /\ UNCHANGED <<tables, now, nreq>>

\* Reservation.create, ReservedSeat.bulkCreate, showtime.save, commit; a
\* rejected insert throws, and the catch block rolls back
CreatePersist(p) ==
  /\ pc[p] = "c_insert"
  /\ LET sid == req[p].sid
         ids == req[p].seatIds
         rid == resSeq + 1
     IN IF UniqueViolation(req[p].ref)
        THEN /\ Respond(p, "ServerError")
             /\ UNCHANGED tables
        ELSE /\ reservations' = reservations @@
                  (rid :> [userId |-> req[p].uid, showtimeId |-> sid,
                           totalPrice |-> req[p].price, status |-> createdStatus,
                           bookingReference |-> req[p].ref])
             /\ resSeq' = rid
             /\ reservedSeats' = reservedSeats \cup NewClaims(rid, sid, ids)
             /\ showtimes' = [s \in DOMAIN showtimes |->
                                IF s = sid
                                THEN [showtimes[s] EXCEPT !.availableSeats = AfterBooking(req[p].avail, Len(ids))]
                                ELSE showtimes[s]]
             /\ Goto(p, "c_fetch", [req[p] EXCEPT !.rid = rid])
             /\ UNCHANGED showSeq
  /\ UNCHANGED <<now, nreq>>

\* after the commit the reservation is read back for the response; when it
\* is gone the handler throws, its catch block fails on the finished
\* transaction and no response is sent
CreateRespond(p) ==
  /\ pc[p] = "c_fetch"
  /\ IF req[p].rid \in DOMAIN reservations
     THEN Respond(p, "Created")
     ELSE Respond(p, "NoResponse")
  /\ UNCHANGED <<tables, now, nreq>>

\* The read after the commit runs outside the transaction, on a connection
\* taken from the pool; when the store gives none in time the read throws,
\* the catch block's rollback throws on the finished transaction and no
\* response is sent.  The committed rows stay.
CreateFetchFails(p) ==
  /\ pc[p] = "c_fetch"
  /\ Respond(p, "NoResponse")
  /\ UNCHANGED <<tables, now, nreq>>

----------------------------------------------------------------------------
(* DELETE /api/reservations/:id : cancel reservation *)

\* (variant: the findOne carries no lock)
CancelReservationLockNotTaken(p, rid) == TRUE

\* Reservation.findOne({ ..., lock: transaction.LOCK.UPDATE, transaction })
CancelReservationLockGranted(p, rid) == ReservationLockFree(p, rid)

\* (variant: the read joins the showtime's reservations and locks them too)
CancelLocksJoinedRows(p, sid) ==
  /\ ShowtimeLockFree(p, sid)
  /\ \A r \in DOMAIN reservations :
       reservations[r].showtimeId = sid => ReservationLockFree(p, r)

\* Showtime.findByPk(reservation.showtimeId, { lock: ..., transaction })
CancelShowtimeLockGranted(p, sid) == ShowtimeLockFree(p, sid)

\* (variant: the seats are given back twice)
AfterCancelTwice(avail, n) == avail + n + n

\* showtime.availableSeats += reservation.ReservedSeats.length
AfterCancel(avail, n) == avail + n

\* (variant: the where clause leaves the status out)
CancelMatchesAnyStatus(rid, uid) ==
  /\ rid \in DOMAIN reservations
  /\ reservations[rid].userId = uid

\* the row findOne is asked for: this id, this holder, still confirmed
CancelMatches(rid, uid) ==
  /\ Confirmed(rid)
  /\ reservations[rid].userId = uid

\* The request arrives, the transaction is opened, the reservation is read
\* under its row lock (the statement waits while another transaction holds
\* the lock, then looks at the row again), the cutoff is checked and the
\* status is written, which stays private to the transaction until commit
\* (variant: the status is saved, outside the transaction, before the
\* cutoff is checked)
CancelSavesBeforeCutoff(p, uids) ==
  /\ Accept(p)
  /\ \E rid \in 0..resSeq, uid \in uids :
       LET asked == [Blank EXCEPT !.op = "cancel", !.rid = rid, !.uid = uid]
       IN IF ~CancelMatches(rid, uid)
          THEN /\ RespondWith(p, "ReservationNotFound", {}, asked)
               /\ UNCHANGED reservations
          ELSE /\ CancelReservationLockGranted(p, rid)
               /\ LET sid == reservations[rid].showtimeId
                  IN IF showtimes[sid].startTime < now
                     THEN /\ RespondWith(p, "PastReservation", {}, asked)
                          /\ reservations' = [reservations EXCEPT ![rid].status = "cancelled"]
                     ELSE /\ Goto(p, "x_lock",
                                  [asked EXCEPT !.sid = sid,
                                     !.cnt = Cardinality({c \in reservedSeats : c.reservationId = rid})])
                          /\ UNCHANGED reservations
  /\ UNCHANGED <<showtimes, showSeq, resSeq, reservedSeats, now>>

\* (variant: the reservation is looked up by its id alone)
GetMatchesAnyone(rid, uid) == rid \in DOMAIN reservations

\* where: { id }, and userId as well unless the requester is an admin
GetMatches(rid, uid) ==
  /\ rid \in DOMAIN reservations
  /\ (uid \in Admins \/ reservations[rid].userId = uid)

\* GET /api/reservations/:id : one read outside any transaction; the answer
\* carries the reservation with its seats, or nothing
GetReservation(p) ==
  /\ Accept(p)
  /\ \E rid \in 0..resSeq, uid \in Users :
       LET asked == [Blank EXCEPT !.op = "get", !.rid = rid, !.uid = uid]
       IN IF GetMatches(rid, uid)
          THEN RespondWith(p, "Reservation",
                           {c.seatId : c \in {d \in reservedSeats : d.reservationId = rid}}, asked)
          ELSE RespondWith(p, "ReservationNotFound", {}, asked)
  /\ UNCHANGED <<tables, now>>

\* uids are the requesters drawn; a refusal is recorded with the request
\* it answers.
CancelFindOn(p, uids) ==
  /\ Accept(p)
  /\ \E rid \in 0..resSeq, uid \in uids :
       LET asked == [Blank EXCEPT !.op = "cancel", !.rid = rid, !.uid = uid]
       IN IF ~CancelMatches(rid, uid)
          THEN RespondWith(p, "ReservationNotFound", {}, asked)
          ELSE /\ CancelReservationLockGranted(p, rid)
               /\ LET sid == reservations[rid].showtimeId
                  IN IF showtimes[sid].startTime < now
                     THEN RespondWith(p, "PastReservation", {}, asked)
                     ELSE Goto(p, "x_lock",
                               [asked EXCEPT !.sid = sid,
                                  !.cnt = Cardinality({c \in reservedSeats : c.reservationId = rid})])
  /\ UNCHANGED <<tables, now>>

CancelFind(p) == CancelFindOn(p, Users)

\* the locking read of the showtime; a showtime that is gone makes the
\* handler throw and roll back
CancelLockShowtime(p) ==
  /\ pc[p] = "x_lock"
  /\ LET sid == req[p].sid
     IN IF sid \notin DOMAIN showtimes
        THEN Respond(p, "ServerError")
        ELSE /\ CancelShowtimeLockGranted(p, sid)
             /\ Goto(p, "x_commit", [req[p] EXCEPT !.avail = showtimes[sid].availableSeats])
  /\ UNCHANGED <<tables, now, nreq>>

\* showtime.save and commit: the status and the counter become visible
CancelCommit(p) ==
  /\ pc[p] = "x_commit"
  /\ LET rid == req[p].rid
         sid == req[p].sid
     IN /\ reservations' = [r \in DOMAIN reservations |->
                              IF r = rid THEN [reservations[r] EXCEPT !.status = "cancelled"]
                                         ELSE reservations[r]]
        /\ showtimes' = [s \in DOMAIN showtimes |->
                           IF s = sid
                           THEN [showtimes[s] EXCEPT !.availableSeats = AfterCancel(req[p].avail, req[p].cnt)]
                           ELSE showtimes[s]]
  /\ Respond(p, "Cancelled")
  /\ UNCHANGED <<showSeq, resSeq, reservedSeats, now, nreq>>

----------------------------------------------------------------------------
(* POST /api/showtimes : create showtime *)

\* the where clause of the conflict query, for one stored row:
\* startTime BETWEEN start AND end, or endTime BETWEEN start AND end, or
\* startTime <= start AND endTime >= end
ConflictClause(row, start, end) ==
  \/ (start <= row.startTime /\ row.startTime <= end)
  \/ (start <= row.endTime /\ row.endTime <= end)
  \/ (row.startTime <= start /\ row.endTime >= end)

\* Showtime.findOne({ where: { theaterId, [Op.or]: [...] } }) finds a row
conflictingShowtime(tid, start, end) ==
  \E s \in DOMAIN showtimes :
    /\ showtimes[s].theaterId = tid
    /\ ConflictClause(showtimes[s], start, end)

\* the request arrives, movie and theater are read, the conflict query runs;
\* prices are the prices the request bodies drawn may name
ShowingCheckOn(p, prices) ==
  /\ Accept(p)
  /\ \E mid \in Movies, tid \in Theaters, start \in StartTimes, price \in prices :
       LET end == start + Duration(mid)
       IN IF conflictingShowtime(tid, start, end)
          THEN RespondWith(p, "ScheduleConflict", {},
                           [Blank EXCEPT !.op = "showing", !.tid = tid,
                                         !.start = start, !.end = end])
          ELSE Goto(p, "sc_insert", [Blank EXCEPT !.op = "showing", !.mid = mid, !.tid = tid,
                                       !.start = start, !.end = end, !.price = price])
  /\ UNCHANGED <<tables, now>>

ShowingCheck(p) == ShowingCheckOn(p, Prices)

\* Showtime.create
ShowingInsert(p) ==
  /\ pc[p] = "sc_insert"
  /\ showSeq' = showSeq + 1
  /\ showtimes' = showtimes @@
       (showSeq + 1 :> [movieId |-> req[p].mid, theaterId |-> req[p].tid,
                        startTime |-> req[p].start, endTime |-> req[p].end,
                        price |-> req[p].price, availableSeats |-> availableSeatsAtCreation(req[p].tid)])
  /\ Respond(p, "ShowtimeCreated")
  /\ UNCHANGED <<reservations, resSeq, reservedSeats, now, nreq>>

----------------------------------------------------------------------------
(* PUT /api/showtimes/:id : update showtime *)

\* the request arrives, the showtime is read, its confirmed reservations
\* are counted and the new times are computed on the instance
UpdateFindOn(p, prices) ==
  /\ Accept(p)
  /\ \E sid \in 0..showSeq, start \in StartTimes \cup {NoVal}, price \in prices \cup {NoVal} :
       IF sid \notin DOMAIN showtimes
       THEN Respond(p, "ShowtimeNotFound")
       ELSE IF reservationCount(sid) > 0 /\ start # NoVal
       THEN Respond(p, "HasReservations")
       ELSE Goto(p, "su_save",
                 [Blank EXCEPT !.op = "update", !.sid = sid, !.start = start,
                    !.end = IF start = NoVal THEN NoVal
                            ELSE start + Duration(showtimes[sid].movieId),
                    !.price = price])
  /\ UNCHANGED <<tables, now>>

UpdateFind(p) == UpdateFindOn(p, Prices)

\* the row showtime.save() writes: the fields the handler set, the others
\* as they are stored
UpdatedRow(row, r) ==
  [row EXCEPT !.startTime = IF r.start = NoVal THEN @ ELSE r.start,
              !.endTime = IF r.start = NoVal THEN @ ELSE r.end,
              !.price = IF r.price = NoVal THEN @ ELSE r.price]

\* showtime.save(): an UPDATE of the row, which waits for the row's lock
UpdateSave(p) ==
  /\ pc[p] = "su_save"
  /\ LET sid == req[p].sid
     IN IF sid \notin DOMAIN showtimes
        THEN UNCHANGED showtimes
        ELSE /\ ShowtimeLockFree(p, sid)
             /\ showtimes' = [s \in DOMAIN showtimes |->
                                IF s = sid THEN UpdatedRow(showtimes[s], req[p])
                                           ELSE showtimes[s]]
  /\ Respond(p, "ShowtimeUpdated")
  /\ UNCHANGED <<showSeq, reservations, resSeq, reservedSeats, now, nreq>>

----------------------------------------------------------------------------
(* DELETE /api/showtimes/:id : delete showtime *)

ReservationsOf(sid) == {r \in DOMAIN reservations : reservations[r].showtimeId = sid}

\* the request arrives, the showtime is read, its confirmed reservations
\* are counted
DeleteFind(p) ==
  /\ Accept(p)
  /\ \E sid \in 0..showSeq :
       IF sid \notin DOMAIN showtimes
       THEN Respond(p, "ShowtimeNotFound")
       ELSE IF reservationCount(sid) > 0
       THEN Respond(p, "HasReservations")
       ELSE Goto(p, "sd_destroy", [Blank EXCEPT !.op = "delete", !.sid = sid])
  /\ UNCHANGED <<tables, now>>

\* the rows of the tables once the showtime row and, by ON DELETE CASCADE,
\* its reservations and reserved seats are deleted
Cascade(sid) ==
  /\ showtimes' = [s \in DOMAIN showtimes \ {sid} |-> showtimes[s]]
  /\ reservations' = [r \in DOMAIN reservations \ ReservationsOf(sid) |-> reservations[r]]
  /\ reservedSeats' = {c \in reservedSeats : c.showtimeId # sid}
  /\ UNCHANGED <<showSeq, resSeq>>

CascadeFree(p, sid) == \A r \in ReservationsOf(sid) : ReservationLockFree(p, r)

\* showtime.destroy(): the DELETE takes the row's lock, then the cascade
\* takes the locks of the rows it removes
DeleteDestroy(p) ==
  /\ pc[p] = "sd_destroy"
  /\ LET sid == req[p].sid
     IN IF sid \notin DOMAIN showtimes
        THEN /\ Respond(p, "ShowtimeDeleted")
             /\ UNCHANGED tables
        ELSE /\ ShowtimeLockFree(p, sid)
             /\ IF CascadeFree(p, sid)
                THEN /\ Cascade(sid)
                     /\ Respond(p, "ShowtimeDeleted")
                ELSE /\ Goto(p, "sd_cascade", req[p])
                     /\ UNCHANGED tables
  /\ UNCHANGED <<now, nreq>>

\* the cascade goes on once the reservation rows are unlocked
DeleteCascade(p) ==
  /\ pc[p] = "sd_cascade"
  /\ CascadeFree(p, req[p].sid)
  /\ Cascade(req[p].sid)
  /\ Respond(p, "ShowtimeDeleted")
  /\ UNCHANGED <<now, nreq>>

\* The DELETE holds the showtime row and waits for a reservation row that a
\* cancel holds while that cancel waits for the showtime row: the store
\* detects the cycle and aborts one of the two statements, whose handler
\* rolls back and answers with the error
DeadlockAbort(p) ==
  /\ pc[p] = "sd_cascade"
  /\ \E q \in Procs \ {p} :
       /\ pc[q] = "x_lock"
       /\ req[q].sid = req[p].sid
       /\ HoldsReservationLock(q, req[q].rid)
       /\ \E victim \in {p, q} : Respond(victim, "ServerError")
  /\ UNCHANGED <<tables, now, nreq>>

----------------------------------------------------------------------------
(* A store that gives up a lock wait after a time limit.  The handlers set
   no limit themselves; these steps exist only in the specification that
   studies such a store. *)

\* errorHandler: the answer given for an error a handler passes to next()
errorHandler(error) == IF error = "LockTimeout" THEN "Contention" ELSE "ServerError"

\* Showtime.findByPk of the create handler waits for the row lock until the
\* store gives up: the statement throws, the catch block rolls back and
\* passes the error on
CreateLockTimeoutOn(p, sids, arrays, uids) ==
  /\ Accept(p)
  /\ \E sid \in sids \cap DOMAIN showtimes, ids \in arrays, uid \in uids :
       /\ Len(ids) > 0
       /\ ~CreateLockGranted(p, sid)
       /\ RespondWith(p, errorHandler("LockTimeout"), {},
                       [Blank EXCEPT !.op = "create", !.sid = sid, !.uid = uid])
  /\ UNCHANGED <<tables, now>>

\* Reservation.findOne of the cancel handler waits for the row lock until
\* the store gives up
CancelFindTimeoutOn(p, uids) ==
  /\ Accept(p)
  /\ \E rid \in 1..resSeq, uid \in uids :
       /\ CancelMatches(rid, uid)
       /\ ~CancelReservationLockGranted(p, rid)
       /\ RespondWith(p, errorHandler("LockTimeout"), {},
                       [Blank EXCEPT !.op = "cancel", !.rid = rid, !.uid = uid,
                          !.sid = reservations[rid].showtimeId])
  /\ UNCHANGED <<tables, now>>

\* (variant: the catch block commits what the transaction has written)
CancelLockTimeoutCommits(p) ==
  /\ pc[p] = "x_lock"
  /\ req[p].sid \in DOMAIN showtimes
  /\ ~CancelShowtimeLockGranted(p, req[p].sid)
  /\ reservations' = [reservations EXCEPT ![req[p].rid].status = "cancelled"]
  /\ RespondWith(p, errorHandler("LockTimeout"), {},
                  [Blank EXCEPT !.op = "cancel", !.rid = req[p].rid, !.uid = req[p].uid,
                     !.sid = req[p].sid])
  /\ UNCHANGED <<showtimes, showSeq, resSeq, reservedSeats, now, nreq>>

\* Showtime.findByPk of the cancel handler waits for the row lock until the
\* store gives up: the catch block rolls back the status already written
\* in the transaction and passes the error on
CancelLockTimeout(p) ==
  /\ pc[p] = "x_lock"
  /\ req[p].sid \in DOMAIN showtimes
  /\ ~CancelShowtimeLockGranted(p, req[p].sid)
  /\ RespondWith(p, errorHandler("LockTimeout"), {},
                  [Blank EXCEPT !.op = "cancel", !.rid = req[p].rid, !.uid = req[p].uid,
                     !.sid = req[p].sid])
  /\ UNCHANGED <<tables, now, nreq>>

----------------------------------------------------------------------------
(* The clock *)

Tick ==
  /\ now < MaxTime
  /\ now' = now + 1
  /\ UNCHANGED <<tables, pc, req, resp, nreq>>

----------------------------------------------------------------------------
(* Specifications *)

ReservationStep(p) ==
  \/ CreateLock(p)
  \/ CreateGenRef(p)
  \/ CreatePersist(p)
  \/ CreateRespond(p)
  \/ CancelFind(p)
  \/ CancelLockShowtime(p)
  \/ CancelCommit(p)

ShowtimeStep(p) ==
  \/ ShowingCheck(p)
  \/ ShowingInsert(p)
  \/ UpdateFind(p)
  \/ UpdateSave(p)
  \/ DeleteFind(p)
  \/ DeleteDestroy(p)
  \/ DeleteCascade(p)
  \/ DeadlockAbort(p)

Next ==
  \/ \E p \in Procs : ReservationStep(p)
  \/ \E p \in Procs : ShowtimeStep(p)
  \/ \E p \in Procs : GetReservation(p)
  \/ \E p \in Procs : CreateFetchFails(p)
  \/ Tick

Spec == Init /\ [][Next]_vars

\* the reservation routes alone, on the seeded showtimes
NextBook ==
  \/ \E p \in Procs : ReservationStep(p)
  \/ Tick

SpecBook == InitApart /\ [][NextBook]_vars

\* the showtime routes alone, on the seeded showtimes and no reservation
NextSched ==
  \E p \in Procs :
    \/ ShowingCheckOn(p, {SeedPrice})
    \/ ShowingInsert(p)
    \/ UpdateFindOn(p, {SeedPrice})
    \/ UpdateSave(p)
    \/ DeleteFind(p)
    \/ DeleteDestroy(p)

SpecSched == InitApart /\ [][NextSched]_vars

\* the showtime routes, one request at a time: a request is taken up only
\* when every handler has answered
Quiet == \A q \in Procs : pc[q] = "idle"

NextSchedSeq ==
  \E p \in Procs :
    \/ Quiet /\ ShowingCheckOn(p, {SeedPrice})
    \/ ShowingInsert(p)
    \/ Quiet /\ UpdateFindOn(p, {SeedPrice})
    \/ UpdateSave(p)
    \/ Quiet /\ DeleteFind(p)
    \/ DeleteDestroy(p)

SpecSchedSeq == InitApart /\ [][NextSchedSeq]_vars

\* Requests for seats of showtime 1 that all name seat 1, and nothing else:
\* the arrays are the valid ones (distinct seats of the showtime's theater)
RaceArrays ==
  {q \in SeatIdInputs :
     /\ 1 \in Range(q)
     /\ Cardinality(Range(q)) = Len(q)
     /\ \A i \in 1..Len(q) : SeatTheater(q[i]) = 1}

NextRace ==
  \E p \in Procs :
    \/ CreateLockOn(p, {1}, RaceArrays, Users)
    \/ CreateGenRef(p)
    \/ CreatePersist(p)
    \/ CreateRespond(p)

\* the seeding with showtime 1 in theater 1
InitRace == \E t2 \in Theaters : Seeded(1, t2)

SpecRace == InitRace /\ [][NextRace]_vars

\* the reservation routes on showtime 1 once it has bookings, the clock
\* standing before the showtime's start
BookedArrays ==
  {q \in SeatIdInputs :
     /\ Len(q) > 0
     /\ Cardinality(Range(q)) = Len(q)
     /\ \A i \in 1..Len(q) : SeatTheater(q[i]) = 1}

NextBooked ==
  \E p \in Procs :
    \/ CreateLockOn(p, {1}, BookedArrays, Bookers)
    \/ CreateGenRef(p)
    \/ CreatePersist(p)
    \/ CreateRespond(p)
    \/ CancelFindOn(p, Users)
    \/ CancelLockShowtime(p)
    \/ CancelCommit(p)

SpecBooked == InitBooked /\ [][NextBooked]_vars

\* creating reservations while showtimes are deleted, on the seeded showtimes
NextDelete ==
  \E p \in Procs :
    \/ CreateLockOn(p, 1..showSeq, BookedArrays, Bookers)
    \/ CreateGenRef(p)
    \/ CreatePersist(p)
    \/ CreateRespond(p)
    \/ DeleteFind(p)
    \/ DeleteDestroy(p)

SpecDelete == InitApart /\ [][NextDelete]_vars

\* cancelling reservations and deleting showtimes, one request at a time,
\* on showtimes that have bookings
NextAudit ==
  \E p \in Procs :
    \/ Quiet /\ CancelFindOn(p, Bookers)
    \/ CancelLockShowtime(p)
    \/ CancelCommit(p)
    \/ Quiet /\ DeleteFind(p)
    \/ DeleteDestroy(p)

SpecAudit == InitBooked /\ [][NextAudit]_vars

\* reading single reservations while reservations are created and
\* cancelled, on showtimes that have bookings
NextGet ==
  \E p \in Procs :
    \/ GetReservation(p)
    \/ CreateLockOn(p, {1}, BookedArrays, Bookers)
    \/ CreateGenRef(p)
    \/ CreatePersist(p)
    \/ CreateRespond(p)
    \/ CancelFindOn(p, Bookers)
    \/ CancelLockShowtime(p)
    \/ CancelCommit(p)

SpecGet == InitBooked /\ [][NextGet]_vars

\* the reservation routes on a store that gives up lock waits, on
\* showtimes that have bookings
NextTimeout ==
  \E p \in Procs :
    \/ CreateLockOn(p, {1}, BookedArrays, Bookers)
    \/ CreateGenRef(p)
    \/ CreatePersist(p)
    \/ CreateRespond(p)
    \/ CancelFindOn(p, Bookers)
    \/ CancelLockShowtime(p)
    \/ CancelCommit(p)
    \/ CreateLockTimeoutOn(p, {1}, BookedArrays, Bookers)
    \/ CancelFindTimeoutOn(p, Bookers)
    \/ CancelLockTimeout(p)

SpecTimeout == InitBooked /\ [][NextTimeout]_vars

\* the reservation routes on a database found with a low counter
NextDrift ==
  \E p \in Procs :
    \/ CreateLockOn(p, {1}, BookedArrays, Bookers)
    \/ CreateGenRef(p)
    \/ CreatePersist(p)
    \/ CreateRespond(p)
    \/ CancelFindOn(p, Bookers)
    \/ CancelLockShowtime(p)
    \/ CancelCommit(p)

SpecDrift == InitDrift /\ [][NextDrift]_vars

\* seat lists of seats of theater 1, the empty list and lists with
\* repetitions among them
RepeatArrays == {q \in SeatIdInputs : \A i \in 1..Len(q) : SeatTheater(q[i]) = 1}

\* creating reservations from such lists, on the seeded showtimes
NextRepeat ==
  \E p \in Procs :
    \/ CreateLockOn(p, {1}, RepeatArrays, Bookers)
    \/ CreateGenRef(p)
    \/ CreatePersist(p)
    \/ CreateRespond(p)

SpecRepeat == InitApart /\ [][NextRepeat]_vars

\* creating showtimes, the requests taken up concurrently
NextPlan ==
  \E p \in Procs :
    \/ ShowingCheckOn(p, {SeedPrice})
    \/ ShowingInsert(p)

SpecPlan == InitApart /\ [][NextPlan]_vars

\* the showtime routes, one request at a time, on every database that
\* seedData may leave
SpecSeed == Init /\ [][NextSchedSeq]_vars

\* creating reservations on a store whose reads may fail
NextFetch ==
  \E p \in Procs :
    \/ CreateLockOn(p, 1..showSeq, BookedArrays, Bookers)
    \/ CreateGenRef(p)
    \/ CreatePersist(p)
    \/ CreateRespond(p)
    \/ CreateFetchFails(p)

SpecFetch == InitApart /\ [][NextFetch]_vars

\* seat lists without repetition, of seats of either theater
MixedArrays == {q \in SeatIdInputs : Len(q) > 0 /\ Cardinality(Range(q)) = Len(q)}

\* creating reservations for seats of either theater, on showtimes that
\* have bookings
NextSeats ==
  \E p \in Procs :
    \/ CreateLockOn(p, 1..showSeq, MixedArrays, Bookers)
    \/ CreateGenRef(p)
    \/ CreatePersist(p)
    \/ CreateRespond(p)

SpecSeats == InitBooked /\ [][NextSeats]_vars

\* creating showtimes and reservations, on showtimes that have bookings
NextOpen ==
  \E p \in Procs :
    \/ ShowingCheckOn(p, {SeedPrice})
    \/ ShowingInsert(p)
    \/ CreateLockOn(p, 1..showSeq, BookedArrays, Bookers)
    \/ CreateGenRef(p)
    \/ CreatePersist(p)
    \/ CreateRespond(p)

SpecOpen == InitBooked /\ [][NextOpen]_vars

\* creating reservations while showtimes are updated, on the seeded showtimes
NextUpdate ==
  \E p \in Procs :
    \/ CreateLockOn(p, 1..showSeq, BookedArrays, Bookers)
    \/ CreateGenRef(p)
    \/ CreatePersist(p)
    \/ CreateRespond(p)
    \/ UpdateFindOn(p, Prices)
    \/ UpdateSave(p)

SpecUpdate == InitApart /\ [][NextUpdate]_vars

----------------------------------------------------------------------------
(* Properties *)

\* a transaction of a reservation route on showtime sid is open
InFlightOn(p, sid) ==
  /\ req[p].sid = sid
  /\ pc[p] \in {"c_ref", "c_insert", "x_lock", "x_commit"}

ClaimsOf(rid) == {c \in reservedSeats : c.reservationId = rid}

\* half-open intervals [s1, e1) and [s2, e2) overlap
Overlap(s1, e1, s2, e2) == s1 < e2 /\ s2 < e1

OverlapsRow(start, end, row) == Overlap(start, end, row.startTime, row.endTime)

\* C1: in every reachable state no seat of a showtime is bound by reserved
\* seats of two different confirmed reservations of that showtime.
NoDoubleBooking ==
  \A c1 \in reservedSeats : \A c2 \in reservedSeats :
    ( /\ c1.showtimeId = c2.showtimeId
      /\ c1.seatId = c2.seatId
      /\ Confirmed(c1.reservationId)
      /\ Confirmed(c2.reservationId) )
    => c1.reservationId = c2.reservationId

\* C1 witness: two confirmed reservations hold seats of the same showtime
TwoBookingsOneShowing ==
  \E r1 \in DOMAIN reservations : \E r2 \in DOMAIN reservations :
    /\ r1 # r2
    /\ Confirmed(r1) /\ Confirmed(r2)
    /\ reservations[r1].showtimeId = reservations[r2].showtimeId
    /\ ClaimsOf(r1) # {} /\ ClaimsOf(r2) # {}

\* C2: requests for the same showtime that all name seat 1, taken up
\* concurrently: every response is a success or "seats already reserved",
\* never more than one reservation is stored, and once all requests are
\* answered exactly one confirmed reservation exists, it holds its seats,
\* and availableSeats is lower by exactly its number of seats.
OneWinner ==
  /\ resp.kind \in {"none", "Created", "SeatsAlreadyReserved"}
  /\ Cardinality(DOMAIN reservations) <= 1
  /\ (nreq = MaxRequests /\ Quiet) =>
       \E r \in DOMAIN reservations :
         /\ DOMAIN reservations = {r}
         /\ Confirmed(r)
         /\ reservations[r].showtimeId = 1
         /\ 1 \in {c.seatId : c \in ClaimsOf(r)}
         /\ reservedSeats = ClaimsOf(r)
         /\ showtimes[1].availableSeats =
              TotalSeats(showtimes[1].theaterId) - Cardinality(ClaimsOf(r))

\* C2 witness: all the requests are answered, the last one with "seats
\* already reserved"
RaceDecided ==
  /\ nreq = MaxRequests
  /\ Quiet
  /\ resp.kind = "SeatsAlreadyReserved"
  /\ resSeq = 1

\* C3: for every showtime with no reservation transaction in flight,
\* availableSeats equals the theater's totalSeats minus the number of
\* reserved seats of the showtime whose reservation is confirmed.
CounterMatchesClaims ==
  \A sid \in DOMAIN showtimes :
    (\A p \in Procs : ~InFlightOn(p, sid)) =>
      showtimes[sid].availableSeats =
        TotalSeats(showtimes[sid].theaterId) - Cardinality(ConfirmedClaims(sid))

\* C3 witness: a reservation was created and cancelled, nothing is in flight
CreatedThenCancelled ==
  /\ Quiet
  /\ \E r \in DOMAIN reservations :
       /\ reservations[r].status = "cancelled"
       /\ Cardinality(ClaimsOf(r)) > 1

\* C4: in every reachable state every showtime has
\* 0 <= availableSeats <= totalSeats of its theater.
CapacityBounds ==
  \A sid \in DOMAIN showtimes :
    /\ 0 <= showtimes[sid].availableSeats
    /\ showtimes[sid].availableSeats <= TotalSeats(showtimes[sid].theaterId)

\* C4 witness: a showtime is sold out by confirmed reservations
SoldOut ==
  \E sid \in DOMAIN showtimes :
    /\ showtimes[sid].availableSeats = 0
    /\ Cardinality(ConfirmedClaims(sid)) = TotalSeats(showtimes[sid].theaterId)

\* C5: a cancel holds the showtime's row lock from before it reads or writes
\* the reservation's status until it commits.
CancelHoldsShowtimeLock ==
  \A p \in Procs :
    pc[p] \in {"x_lock", "x_commit"} => HoldsShowtimeLock(p, req[p].sid)

\* C6: in every reachable state no two showtimes of the same theater have
\* overlapping intervals [startTime, endTime).
NoOverlappingShowtimes ==
  \A a \in DOMAIN showtimes : \A b \in DOMAIN showtimes :
    (a # b /\ showtimes[a].theaterId = showtimes[b].theaterId) =>
      ~OverlapsRow(showtimes[a].startTime, showtimes[a].endTime, showtimes[b])

\* C7: for every stored showtime and every proposed interval, the conflict
\* query matches the stored row if and only if the two half-open intervals
\* overlap.
ConflictIffOverlap ==
  \A s \in DOMAIN showtimes : \A m \in Movies : \A start \in StartTimes :
    ConflictClause(showtimes[s], start, start + Duration(m))
      <=> OverlapsRow(start, start + Duration(m), showtimes[s])

\* C8: a create-showtime request is turned down with a schedule conflict
\* only when its interval overlaps a stored showtime of the theater; a
\* request that merely touches one at an end point is accepted.
TouchingShowingAccepted ==
  [][ (nreq' = nreq + 1 /\ pc' = pc /\ resp'.kind = "ScheduleConflict") =>
        \E s \in DOMAIN showtimes :
          /\ showtimes[s].theaterId = resp'.of.tid
          /\ OverlapsRow(resp'.of.start, resp'.of.end, showtimes[s]) ]_vars

\* C9: an update changes a showtime's start time only to an interval that
\* overlaps no other showtime of the same theater.
UpdateRechecksConflicts ==
  [][ \A s \in DOMAIN showtimes \cap DOMAIN showtimes' :
        showtimes'[s].startTime # showtimes[s].startTime =>
          \A o \in DOMAIN showtimes \ {s} :
            showtimes[o].theaterId = showtimes[s].theaterId =>
              ~OverlapsRow(showtimes'[s].startTime, showtimes'[s].endTime, showtimes[o]) ]_vars

\* C10: in every reachable state no two reservations, confirmed or
\* cancelled, share a booking reference.
UniqueReferences ==
  \A r1 \in DOMAIN reservations : \A r2 \in DOMAIN reservations :
    reservations[r1].bookingReference = reservations[r2].bookingReference => r1 = r2

\* C10 witness: two creates on different showtimes drew the same code, one
\* committed and the insert of the other was rejected
ReferenceCollisionRejected ==
  /\ resp.kind = "ServerError"
  /\ \E r \in DOMAIN reservations : Confirmed(r)

\* the handler p answers in this step
Answers(p) ==
  \/ pc[p] # "idle" /\ pc'[p] = "idle"
  \/ pc' = pc /\ pc[p] = "idle" /\ nreq' = nreq + 1

\* C11: reference generation always ends: a handler that is in the
\* reference loop can leave it, by a free code or by giving up with
\* ReferenceExhausted, also when every code of the code space is taken.
ReferenceLoopEnds ==
  \A p \in Procs : pc[p] = "c_ref" => ENABLED <<CreateGenRef(p)>>_vars

\* C12: a cancel request for a reservation that is already cancelled is
\* answered "not found" and changes no table; a cancelled reservation keeps
\* its status and its reserved seats; and availableSeats grows only in a
\* step that turns one confirmed reservation of the showtime into a
\* cancelled one, by that reservation's number of reserved seats.
CancelAtMostOnce ==
  [][ /\ \A r \in DOMAIN reservations :
           reservations[r].status = "cancelled" =>
             /\ r \in DOMAIN reservations' /\ reservations'[r] = reservations[r]
             /\ {c \in reservedSeats' : c.reservationId = r} = ClaimsOf(r)
             /\ \A p \in Procs :
                  (Answers(p) /\ resp'.of.op = "cancel" /\ resp'.of.rid = r) =>
                    (resp'.kind = "ReservationNotFound" /\ tables' = tables)
      /\ \A sid \in DOMAIN showtimes :
           showtimes'[sid].availableSeats > showtimes[sid].availableSeats =>
             \E r \in DOMAIN reservations :
               /\ reservations[r].showtimeId = sid
               /\ reservations[r].status = "confirmed"
               /\ reservations'[r].status = "cancelled"
               /\ showtimes'[sid].availableSeats =
                    showtimes[sid].availableSeats + Cardinality(ClaimsOf(r)) ]_vars

\* C12 witness: a cancel request for a cancelled reservation was answered
\* "not found"
CancelledAskedAgain ==
  /\ resp.kind = "ReservationNotFound"
  /\ resp.of.rid \in DOMAIN reservations
  /\ reservations[resp.of.rid].status = "cancelled"
  /\ reservations[resp.of.rid].userId = resp.of.uid

\* the cancel request the step answers, when it answers one
CancelAnswered(p) == Answers(p) /\ resp'.of.op = "cancel"

\* C13: a cancel request of an admin for a confirmed reservation of another
\* user, whose showtime has not started, is not refused: the handler goes
\* on to cancel it.
AdminCancelsOthers ==
  [][ \A p \in Procs :
        ( /\ CancelAnswered(p)
          /\ resp'.of.uid \in Admins
          /\ Confirmed(resp'.of.rid)
          /\ reservations[resp'.of.rid].userId # resp'.of.uid
          /\ now < showtimes[reservations[resp'.of.rid].showtimeId].startTime )
        => resp'.kind = "Cancelled" ]_vars

\* C14: a cancel request for a confirmed reservation by a user who is
\* neither its holder nor an admin is answered "not owner", an answer other
\* than "not found", and changes no table.
NonOwnerRefused ==
  [][ \A p \in Procs :
        ( /\ CancelAnswered(p)
          /\ resp'.of.uid \notin Admins
          /\ Confirmed(resp'.of.rid)
          /\ reservations[resp'.of.rid].userId # resp'.of.uid )
        => (resp'.kind = "NotOwner" /\ tables' = tables) ]_vars

\* C15: a cancel passes its cutoff check only while now < startTime; at
\* now = startTime and later it is refused.
CancelCutoffAtStart ==
  [][ \A p \in Procs :
        (pc[p] = "idle" /\ pc'[p] = "x_lock") =>
          now < showtimes[req'[p].sid].startTime ]_vars

\* C16: a create passes its cutoff check only while now < startTime; at
\* now = startTime and later it is refused and nothing is persisted.
CreateCutoffAtStart ==
  [][ \A p \in Procs :
        (pc[p] = "idle" /\ pc'[p] = "c_ref") =>
          now < showtimes[req'[p].sid].startTime ]_vars

\* C17: after a reservation is cancelled its reserved seats are still
\* recorded, as many as it paid for; a showtime with no confirmed
\* reservation and no transaction open has availableSeats back at the
\* theater's totalSeats; and "seats already reserved" only ever names
\* seats that a confirmed reservation holds, so the seats of a cancelled
\* reservation can be booked again.
RoundTripRestores ==
  [][ /\ \A r \in DOMAIN reservations' :
           reservations'[r].status = "cancelled" =>
             Cardinality({c \in reservedSeats' : c.reservationId = r})
               * showtimes'[reservations'[r].showtimeId].price = reservations'[r].totalPrice
      /\ \A sid \in DOMAIN showtimes' :
           ( /\ \A p \in Procs : ~(InFlightOn(p, sid))'
             /\ (reservationCount(sid))' = 0 )
           => showtimes'[sid].availableSeats = TotalSeats(showtimes'[sid].theaterId)
      /\ \A p \in Procs :
           (Answers(p) /\ resp'.kind = "SeatsAlreadyReserved") =>
             \A s \in resp'.named : \E c \in ConfirmedClaims(1) : seatNumber(c.seatId) = s ]_vars

\* C17 witness: a reservation was cancelled and its seats are booked again
\* by a confirmed reservation of the same showtime, the counter lowered
\* once
Rebooked ==
  \E r1 \in DOMAIN reservations : \E r2 \in DOMAIN reservations :
    /\ reservations[r1].status = "cancelled"
    /\ Confirmed(r2)
    /\ Cardinality(ClaimsOf(r1)) = 2
    /\ {c.seatId : c \in ClaimsOf(r2)} = {c.seatId : c \in ClaimsOf(r1)}
    /\ showtimes[1].availableSeats = TotalSeats(1) - 2

\* the answers that turn a request down
Failures ==
  {"BadRequest", "ShowtimeNotFound", "PastShowtime", "InvalidSeats", "SeatsAlreadyReserved",
   "NotEnoughSeats", "ServerError", "ReservationNotFound", "PastReservation"}

\* C18: a step that answers a create or cancel request with a failure
\* changes no table; and a step that stores a reservation stores its
\* reserved seats and lowers the showtime's availableSeats by their number
\* in the same step.
FailureChangesNothing ==
  [][ /\ \A p \in Procs : (Answers(p) /\ resp'.kind \in Failures) => tables' = tables
      /\ DOMAIN reservations' # DOMAIN reservations =>
           LET r == resSeq'
               sid == reservations'[r].showtimeId
               new == {c \in reservedSeats' : c.reservationId = r}
           IN /\ DOMAIN reservations' = DOMAIN reservations \cup {r}
              /\ new # {}
              /\ reservedSeats' = reservedSeats \cup new
              /\ showtimes'[sid].availableSeats =
                   showtimes[sid].availableSeats - Cardinality(new) ]_vars

\* C18 witness: a cancel of a confirmed reservation was refused because the
\* showtime has started
RefusedPastCancel ==
  /\ resp.kind = "PastReservation"
  /\ Confirmed(resp.of.rid)

DestroyedOnlyWithoutReservations ==
  [][ \A sid \in DOMAIN showtimes \ DOMAIN showtimes' : reservationCount(sid) = 0 ]_vars

\* C21: no step removes a stored reservation or a stored reserved seat:
\* after any sequence of create, cancel and delete-showtime requests every
\* reservation ever committed is still recorded with its seats.
ReservationsAreKept ==
  [][ /\ DOMAIN reservations \subseteq DOMAIN reservations'
      /\ reservedSeats \subseteq reservedSeats' ]_vars

\* C22: no step changes the start time of a showtime that has a confirmed
\* reservation, also when the reservation was committed between the
\* update's count and its save.
StartTimeKeptWhenBooked ==
  [][ \A sid \in DOMAIN showtimes \cap DOMAIN showtimes' :
        reservationCount(sid) > 0 =>
          showtimes'[sid].startTime = showtimes[sid].startTime ]_vars

\* the reservations a step inserts
Inserted == DOMAIN reservations' \ DOMAIN reservations

\* C23: a reservation is inserted with status confirmed; the only change
\* of a stored status is from confirmed to cancelled; a cancelled
\* reservation keeps that status in every later state.
StatusLifeCycle ==
  [][ /\ \A r \in Inserted : reservations'[r].status = "confirmed"
      /\ \A r \in DOMAIN reservations \cap DOMAIN reservations' :
           /\ reservations'[r].status \in {"confirmed", "cancelled"}
           /\ reservations'[r].status # reservations[r].status =>
                (reservations[r].status = "confirmed" /\ reservations'[r].status = "cancelled")
           /\ reservations[r].status = "cancelled" => reservations'[r].status = "cancelled" ]_vars

\* a reservation created by a request has been cancelled and another one
\* created by a request is confirmed
BothStatusesStored ==
  /\ Quiet
  /\ \E r1 \in DOMAIN reservations : \E r2 \in DOMAIN reservations :
       /\ reservations[r1].status = "cancelled"
       /\ reservations[r2].status = "confirmed"
       /\ r2 > r1

\* C24: the totalPrice stored with a new reservation is the price its
\* showtime has in the step that stores it times the number of seats the
\* reservation holds, whatever the types of the seats.
PriceTimesSeats ==
  [][ \A r \in Inserted :
        reservations'[r].totalPrice =
          showtimes[reservations'[r].showtimeId].price
            * Cardinality({c \in reservedSeats' : c.reservationId = r}) ]_vars

\* a reservation of a standard and a premium seat, booked after the price
\* of its showtime was changed, is stored at twice the new price
MixedSeatsAtNewPrice ==
  \E r \in DOMAIN reservations :
    /\ {SeatType(c.seatId) : c \in ClaimsOf(r)} = {"standard", "premium"}
    /\ showtimes[reservations[r].showtimeId].price # SeedPrice
    /\ reservations[r].totalPrice = 2 * showtimes[reservations[r].showtimeId].price

\* C25: a showtime inserted by the create-showtime handler has
\* availableSeats equal to the totalSeats of its theater and no reserved
\* seat.
NewShowtimeIsEmpty ==
  [][ \A sid \in DOMAIN showtimes' \ DOMAIN showtimes :
        /\ showtimes'[sid].availableSeats = TotalSeats(showtimes'[sid].theaterId)
        /\ \A c \in reservedSeats' : c.showtimeId # sid ]_vars

\* a showtime created by a request stands at full capacity next to a
\* showtime with reserved seats
NewShowtimeNextToBooked ==
  \E sid \in DOMAIN showtimes :
    /\ sid > 2
    /\ showtimes[sid].availableSeats = TotalSeats(showtimes[sid].theaterId)
    /\ showtimes[sid].availableSeats > 0
    /\ \E c \in reservedSeats : c.showtimeId = 1

NamesExactlyTakenSeats ==
  [][ \A p \in Procs :
        (Answers(p) /\ resp'.kind = "SeatsAlreadyReserved") =>
          /\ resp'.of.op = "create"
          /\ \A s \in Range(resp'.of.seatIds) :
               seatNumber(s) \in resp'.named
                 <=> \E c \in ConfirmedClaims(resp'.of.sid) : c.seatId = s
          /\ \A n \in resp'.named : \E s \in Range(resp'.of.seatIds) : seatNumber(s) = n
          /\ resp'.named # {} ]_vars

\* a request for a taken and a free seat was told the taken one alone
OneOfTwoNamed ==
  /\ resp.kind = "SeatsAlreadyReserved"
  /\ Cardinality(Range(resp.of.seatIds)) = 2
  /\ Cardinality(resp.named) = 1

\* the seats of a list that are not seats of the theater of a showtime
Foreign(seatIds, sid) ==
  {s \in Range(seatIds) : s \notin Seats \/ SeatTheater(s) # showtimes[sid].theaterId}

\* C28: a create request naming a seat that is not a seat of its
\* showtime's theater never gets past the seat validation (it is neither
\* accepted nor told that seats are taken), the answer "invalid seats"
\* stores nothing, and every reserved seat stored is a seat of the theater
\* of its showtime.
SeatsOfTheTheaterOnly ==
  [][ /\ \A p \in Procs :
           /\ (pc[p] = "idle" /\ pc'[p] = "c_ref") =>
                Foreign(req'[p].seatIds, req'[p].sid) = {}
           /\ (Answers(p) /\ resp'.kind = "SeatsAlreadyReserved") =>
                Foreign(resp'.of.seatIds, resp'.of.sid) = {}
           /\ (Answers(p) /\ resp'.kind = "InvalidSeats") => tables' = tables
      /\ \A c \in reservedSeats' :
           /\ c.showtimeId \in DOMAIN showtimes'
           /\ c.seatId \in Seats
           /\ SeatTheater(c.seatId) = showtimes'[c.showtimeId].theaterId ]_vars

\* a request whose seats are all different was answered "invalid seats"
\* while both theaters have seats reserved for their showtimes
ForeignSeatRefused ==
  /\ resp.kind = "InvalidSeats"
  /\ \E c \in reservedSeats : \E d \in reservedSeats :
       SeatTheater(c.seatId) # SeatTheater(d.seatId)

\* C29: a create or cancel whose showtime no other transaction is working
\* on can take its next step and go on to its commit, whatever the
\* transactions in flight on other showtimes do: a cancel waiting for the
\* showtime lock is granted it, a cancel holding it commits, and a create
\* that holds it and has drawn its reference commits its reservation.
IndependentShowtimes ==
  \A p \in Procs :
    (\A q \in Procs \ {p} : ~InFlightOn(q, req[p].sid)) =>
      /\ pc[p] = "x_lock" => ENABLED <<CancelLockShowtime(p) /\ pc'[p] = "x_commit">>_vars
      /\ pc[p] = "x_commit" => ENABLED <<CancelCommit(p)>>_vars
      /\ pc[p] = "c_insert" => ENABLED <<CreatePersist(p) /\ pc'[p] = "c_fetch">>_vars

CapacityGuard ==
  [][ /\ \A p \in Procs :
           /\ (Answers(p) /\ resp'.kind = "NotEnoughSeats") =>
                /\ showtimes[resp'.of.sid].availableSeats < Len(resp'.of.seatIds)
                /\ tables' = tables
           /\ (pc[p] = "idle" /\ pc'[p] = "c_ref") =>
                showtimes[req'[p].sid].availableSeats >= Len(req'[p].seatIds)
      /\ \A sid \in DOMAIN showtimes' : showtimes'[sid].availableSeats >= 0 ]_vars

\* a request for two free seats was refused because the counter stood at
\* one
FreeSeatsRefused ==
  /\ resp.kind = "NotEnoughSeats"
  /\ Len(resp.of.seatIds) = 2
  /\ showtimes[resp.of.sid].availableSeats = 1
  /\ \A c \in ConfirmedClaims(resp.of.sid) : c.seatId \notin Range(resp.of.seatIds)

\* C32: a create request is accepted only with a seat list that is not
\* empty and names no seat twice; the answers given to the other lists
\* change no table; and every stored reservation has at least one reserved
\* seat and no two reserved seats for the same seat.
SeatListWellFormed ==
  [][ /\ \A p \in Procs :
           /\ (pc[p] = "idle" /\ pc'[p] = "c_ref") =>
                /\ Len(req'[p].seatIds) > 0
                /\ Cardinality(Range(req'[p].seatIds)) = Len(req'[p].seatIds)
           /\ (Answers(p) /\ resp'.kind \in {"BadRequest", "InvalidSeats"}) => tables' = tables
      /\ \A r \in DOMAIN reservations' :
           LET claims == {c \in reservedSeats' : c.reservationId = r}
           IN /\ claims # {}
              /\ \A c \in claims : \A d \in claims : c.seatId = d.seatId => c = d ]_vars

\* a list naming a seat of the theater twice was refused after a booking
\* was stored
RepeatedSeatRefused ==
  /\ resp.kind = "InvalidSeats"
  /\ reservations # <<>>

\* C33: two cancel requests for the same confirmed reservation are never
\* both past the locking read; the step that answers one of them with
\* success turns the reservation from confirmed to cancelled and raises
\* availableSeats by the number of its reserved seats, and no other step
\* raises availableSeats: of the two requests one succeeds, the other finds
\* the reservation cancelled and is told "not found".
TwoCancelsOneWins ==
  [][ /\ \A p \in Procs : \A q \in Procs \ {p} :
           ~( /\ pc'[p] \in {"x_lock", "x_commit"}
              /\ pc'[q] \in {"x_lock", "x_commit"}
              /\ req'[p].rid = req'[q].rid )
      /\ \A p \in Procs :
           (Answers(p) /\ resp'.kind = "Cancelled") =>
             LET rid == req[p].rid
                 sid == reservations[rid].showtimeId
             IN /\ Confirmed(rid)
                /\ reservations'[rid].status = "cancelled"
                /\ showtimes'[sid].availableSeats =
                     showtimes[sid].availableSeats + Cardinality(ClaimsOf(rid))
      /\ \A sid \in DOMAIN showtimes :
           showtimes'[sid].availableSeats > showtimes[sid].availableSeats =>
             \E p \in Procs : Answers(p) /\ resp'.kind = "Cancelled" ]_vars

\* both requests of the behaviour asked to cancel the one reservation of
\* two seats: it is cancelled, the later request was told "not found", and
\* the two seats were given back once
SecondCancelNotFound ==
  /\ nreq = 2 /\ Quiet
  /\ resSeq = 1
  /\ reservations[1].status = "cancelled"
  /\ Cardinality(ClaimsOf(1)) = 2
  /\ resp.kind = "ReservationNotFound" /\ resp.of.rid = 1 /\ resp.of.uid = reservations[1].userId
  /\ showtimes[1].availableSeats = TotalSeats(1)

\* C34: a step that stores a new showtime never stores one whose interval
\* overlaps that of a stored showtime of the same theater, also when the
\* create-showtime requests run concurrently: of two such requests at most
\* one is stored.
ConcurrentShowingsExclusive ==
  [][ \A sid \in DOMAIN showtimes' \ DOMAIN showtimes :
        \A b \in DOMAIN showtimes :
          showtimes[b].theaterId = showtimes'[sid].theaterId =>
            ~OverlapsRow(showtimes'[sid].startTime, showtimes'[sid].endTime, showtimes[b]) ]_vars

\* C35: in the database as seedData leaves it, before any request, no two
\* showtimes of the same theater have overlapping intervals, whichever
\* theaters were drawn.
SeededShowtimesApart ==
  nreq = 0 =>
    \A a \in DOMAIN showtimes : \A b \in DOMAIN showtimes \ {a} :
      showtimes[a].theaterId = showtimes[b].theaterId =>
        ~Overlap(showtimes[a].startTime, showtimes[a].endTime,
                 showtimes[b].startTime, showtimes[b].endTime)

\* the outcome the order of checks of the specification gives a create
\* request for seats ids of showtime sid: the answer of the first check
\* that fails, "none" when all pass
FirstFailing(sid, ids) ==
  IF sid \notin DOMAIN showtimes THEN "ShowtimeNotFound"
  ELSE IF showtimes[sid].startTime <= now THEN "PastShowtime"
  ELSE IF Foreign(ids, sid) # {} \/ Cardinality(Range(ids)) # Len(ids) THEN "InvalidSeats"
  ELSE IF \E c \in ConfirmedClaims(sid) : c.seatId \in Range(ids) THEN "SeatsAlreadyReserved"
  ELSE IF showtimes[sid].availableSeats < Len(ids) THEN "NotEnoughSeats"
  ELSE "none"

\* C36: whenever a handler can take up a create request with a seat list
\* that is not empty, the answer it can give is that of the first failing
\* check in the order showtime exists, showtime not started, seats valid,
\* seats not reserved, capacity sufficient, and it accepts the request only
\* when no check fails.
ChecksInOrder ==
  \A p \in Procs : \A sid \in 0..showSeq : \A ids \in SeatIdInputs \ {<<>>} :
    /\ ~ENABLED <<CreateLockOn(p, {sid}, {ids}, Bookers)
                    /\ pc'[p] = "idle" /\ resp'.kind # FirstFailing(sid, ids)>>_vars
    /\ ~ENABLED <<CreateLockOn(p, {sid}, {ids}, Bookers)
                    /\ pc'[p] = "c_ref" /\ FirstFailing(sid, ids) # "none">>_vars

ReportMatchesStore ==
  [][ \A p \in Procs :
        (pc[p] = "c_fetch" /\ pc'[p] = "idle") =>
          (resp'.kind = "Created" <=> req[p].rid \in DOMAIN reservations') ]_vars

\* C39: in every state the store shows, each reservation has at least one
\* reserved seat, each reserved seat names a stored reservation, and the
\* showtime recorded on a reserved seat is the showtime of its reservation.
ClaimsMatchReservations ==
  /\ \A r \in DOMAIN reservations : ClaimsOf(r) # {}
  /\ \A c \in reservedSeats :
       /\ c.reservationId \in DOMAIN reservations
       /\ c.showtimeId = reservations[c.reservationId].showtimeId

\* reservations of two different showtimes are stored, each with its
\* reserved seats
TwoShowtimesBooked ==
  \E r1 \in DOMAIN reservations : \E r2 \in DOMAIN reservations :
    /\ reservations[r1].showtimeId # reservations[r2].showtimeId
    /\ \A c \in ClaimsOf(r1) : c.showtimeId = reservations[r1].showtimeId
    /\ \A c \in ClaimsOf(r2) : c.showtimeId = reservations[r2].showtimeId

====
